---- MODULE Spec2Model ----
(***************************************************************************)
(* Training orchestration of poplar: train (src/poplar/train/ppi.py) and   *)
(* simple_ppitrain (src/poplar/train/simple_ppi.py).                       *)
(*                                                                         *)
(* One run of one orchestrator is a sequential program.  pc is the point   *)
(* of the function body the run has reached; every action is one           *)
(* statement group of the body.  The optimizer, the scheduler, the model   *)
(* (mode and accumulated gradients) and the SummaryWriter are the objects  *)
(* the orchestrator drives; their state is the number of calls each has    *)
(* received and, for the writer, what was written.                         *)
(*                                                                         *)
(* The call is one whose device argument is a string, "cpu" or "cuda".     *)
(* Wall-clock readings lie on a grid of ticks; intervals are in ticks.     *)
(* clock is the latest reading any statement has taken, so the readings of *)
(* a run never go back.  simple_ppitrain reads the clock for each of its   *)
(* two timestamps, once per batch (now = time.time()) and once more for    *)
(* the suffix of a checkpoint; train reads it for its two timestamps only, *)
(* and its summarize_gradients and checkpoint each read it themselves.     *)
(* Any call may raise; the run then ends at "raised", keeping what the     *)
(* statements before the failing call have assigned.                       *)
(* A loss value is abstract: every forward pass yields the loss 1 and      *)
(* every predict call the score 1 per example; which of the examples of a  *)
(* test batch rank the positive above the negative is free.                *)
(***************************************************************************)
EXTENDS Integers, Sequences, FiniteSets, TLC

\* ------------------------------------------------------------------ bounds
MaxShards == 2      \* shards of a Dataset Directory
MaxSteps == 4       \* largest max_steps argument
MaxGAS == 2         \* largest gradient_accumulation_steps argument
MaxTime == 1        \* last tick of the wall clock
TicksPerSecond == 3 \* clock ticks per second, the resolution of a checkpoint suffix
MaxClock == 2       \* last tick of the wall clock in the runs of SpecClock
MaxLen == 5         \* longest input string of DummyModel.encode

\* the train / test triple counts a shard may hold, and the loader batch sizes
ShardShapes ==
    { [train |-> 1, test |-> 0], [train |-> 0, test |-> 1], [train |-> 4, test |-> 2] }
BatchSizes == {1, 2}
Intervals == { [summary |-> 0, checkpoint |-> 1], [summary |-> 1, checkpoint |-> 0] }
Orchestrators == {"train", "simple_ppitrain"}
\* the functions a run starts in: ppi is train followed by the final save,
\* simple_ppitrain is called directly, simple_ppirun is the second entry point
Callables == Orchestrators \cup {"simple_ppirun"}

VARIABLES
    arg,                    \* the arguments of the call, the device count and the clock's last tick
    pc,                     \* position in the function body
    num_data, t_total, epochs, max_steps,
    e, k, j,                \* loop indices: pass, shard, batch
    it,                     \* Training Step Counter
    batch_size,
    now, last_summary_time, last_checkpoint_time,
    clock,                  \* the latest reading of the wall clock
    h,                      \* named parameters whose histogram the summary under way has written
    caught,                 \* exceptions an except clause of the run has handled
    err, cv_err, pos_score, rank_counts, avg_rank, tpr,
    training,               \* the model's mode flag (nn.Module.training)
    grads,                  \* batches backpropagated since the last zero_grad
    backwards, clips, zero_grads,
    optimizer, scheduler,   \* number of step() calls received
    writer,                 \* the Metrics Sink
    checkpoints,            \* periodic checkpoint writes per path
    divisions,              \* divisions the Cross-Validation Pass has performed
    passes,                 \* completed passes over the directory
    train_seen, train_done, \* per shard: train batches processed, loader exhaustions
    cv_seen, cv_done,       \* per shard: test batches scored, passes finished
    cv_training,            \* per shard: mode flag seen at the last scored test batch
    stepped, scheduled, cleared,  \* batch indices of the current shard at which each call happened
    enc_pc, enc_x, enc_out  \* a call of DummyModel.encode: position, argument, result

setupVars == <<num_data, t_total, epochs, max_steps>>
loopVars == <<e, k, j>>
clockVars == <<now, last_summary_time, last_checkpoint_time>>
stepVars == <<clock, h, caught>>
metricVars == <<err, cv_err, pos_score, rank_counts, avg_rank, tpr>>
modelVars == <<training, grads, backwards, clips, zero_grads>>
optVars == <<optimizer, scheduler>>
sinkVars == <<writer, checkpoints, divisions>>
histVars == <<passes, train_seen, train_done, cv_seen, cv_done, cv_training>>
accumVars == <<stepped, scheduled, cleared>>
encVars == <<enc_pc, enc_x, enc_out>>

vars == <<arg, pc, setupVars, loopVars, it, batch_size, clockVars, metricVars,
          modelVars, optVars, sinkVars, histVars, accumVars, encVars, stepVars>>

\* ------------------------------------------------------------- arithmetic
Max(a, b) == IF a >= b THEN a ELSE b
Min(a, b) == IF a <= b THEN a ELSE b

\* a Python float that came out of int / int, kept exact
Rat(n, d) == [num |-> n, den |-> d]
RatDiv(r, n) == [num |-> r.num, den |-> r.den * n]
RatAdd(r, n) == [num |-> r.num + n * r.den, den |-> r.den]
RatEq(r, s) == r.num * s.den = s.num * r.den

RECURSIVE SumTrain(_)
SumTrain(dir) == IF dir = <<>> THEN 0 ELSE Head(dir).train + SumTrain(Tail(dir))

\* ------------------------------------------------------ Dataset Directory
\* directory_dataloader.total(): the pair count of the directory
Total(dir) == SumTrain(dir)

\* len(loader) of a torch DataLoader over n triples
NumBatches(n, bs) == (n + bs - 1) \div bs
\* len(gene) of batch j of that loader
BatchLen(n, bs, jj) == Min(bs, n - jj * bs)

Shard(kk) == arg.directory[kk + 1]
NumShards == Len(arg.directory)
NumTrainBatches(kk) == NumBatches(Shard(kk).train, arg.batch_size)
NumTestBatches(kk) == NumBatches(Shard(kk).test, arg.batch_size)

\* the shapes of the shards of a directory of several shards: shards of one
\* triple, train or test, and shards that hold both, with two triples of one
SmallShapes == { [train |-> 1, test |-> 0], [train |-> 0, test |-> 1] }
RichShapes == { [train |-> 2, test |-> 1], [train |-> 1, test |-> 2] }
Directories ==
    { << s >> : s \in ShardShapes }
        \cup UNION { [1..n -> SmallShapes] : n \in 2..MaxShards }
        \cup UNION { [1..n -> RichShapes] : n \in 2..MaxShards }

\* the directory has a shard that holds train and test triples and is
\* followed by another shard
Rich(dir) == Len(dir) >= 2 /\ dir[1] \in RichShapes

\* a call on one cuda device with CUDA_VISIBLE_DEVICES set, of a model with one
\* named parameter, the first clock reading falling on a second's boundary;
\* over a directory of several shards with train and test triples, the calls
\* with batches of one triple, max_steps unset or the largest, and a summary
\* whenever the clock has moved
Args ==
    { a \in { [fn |-> f, max_steps |-> ms, gradient_accumulation_steps |-> g,
               summary_interval |-> iv.summary, checkpoint_interval |-> iv.checkpoint,
               directory |-> d, batch_size |-> bs, n_gpu |-> 1, cuda_visible |-> TRUE,
               device |-> "cuda", params |-> 1, phase |-> 0, horizon |-> MaxTime] :
                f \in Callables, ms \in -1..MaxSteps, g \in 1..MaxGAS,
                iv \in Intervals, d \in Directories, bs \in BatchSizes } :
        Rich(a.directory) => /\ a.batch_size = 1
                             /\ a.max_steps \in {0, MaxSteps}
                             /\ a.summary_interval = 0 }

\* the calls of SpecClock: a longer clock, every pairing of the two
\* intervals, one or two devices with or without CUDA_VISIBLE_DEVICES, one
\* or two named parameters, every phase of the clock, on two directories
ClockDirectories ==
    { << [train |-> 4, test |-> 2] >>,
      << [train |-> 1, test |-> 0], [train |-> 0, test |-> 1] >> }
ClockIntervals == [summary : {0, 1}, checkpoint : {0, 1}]
ClockBatchSizes == {2}
DeviceCounts == {1, 2}
\* the device argument
Devices == {"cpu", "cuda"}
\* torch.cuda.device_count(), whether os.environ holds CUDA_VISIBLE_DEVICES,
\* and the device argument: one device used as "cpu", two used as "cuda"
Environments ==
    { env \in [n_gpu : DeviceCounts, cuda_visible : BOOLEAN, device : Devices] :
        /\ env.n_gpu = 1 => env.cuda_visible
        /\ env.device = "cpu" <=> env.n_gpu = 1 }
\* len(list(model.named_parameters()))
ParamCounts == {1, 2}
\* ticks between the last second's boundary and tick 0 of the run
Phases == 0..(TicksPerSecond - 1)
\* (only simple_ppitrain iterates over the named parameters)
ClockArgs ==
    { a \in { [fn |-> f, max_steps |-> ms, gradient_accumulation_steps |-> g,
               summary_interval |-> iv.summary, checkpoint_interval |-> iv.checkpoint,
               directory |-> d, batch_size |-> bs, n_gpu |-> env.n_gpu,
               cuda_visible |-> env.cuda_visible, device |-> env.device,
               params |-> np, phase |-> ph,
               horizon |-> MaxClock] :
                f \in Callables, ms \in {0, MaxSteps}, g \in 1..MaxGAS,
                iv \in ClockIntervals, d \in ClockDirectories, bs \in ClockBatchSizes,
                env \in Environments, np \in ParamCounts, ph \in Phases } :
        a.fn # "simple_ppitrain" => a.params = 1 }

\* the calls of SpecFair: those of SpecClock that start on a second's
\* boundary with a model of one named parameter
FairArgs == { a \in ClockArgs : a.phase = 0 /\ a.params = 1 }

\* ------------------------------------------------------------ Metrics Sink
Tags == {"train_error", "grad", "test_error", "avg_rank", "TPR", "pos_score", "hparams"}
NoRecord == [value |-> Rat(0, 1), step |-> -1]

NewWriter == [count |-> [t \in Tags |-> 0], last |-> [t \in Tags |-> NoRecord], closed |-> FALSE]

\* as AddScalar, recording every value at step 0
AddScalarAtZero(w, tag, value, step) ==
    [w EXCEPT !.count[tag] = @ + 1, !.last[tag] = [value |-> value, step |-> 0]]

\* writer.add_scalar(tag, value, step) / add_histogram / add_hparams
AddScalar(w, tag, value, step) ==
    [w EXCEPT !.count[tag] = @ + 1, !.last[tag] = [value |-> value, step |-> step]]

\* ------------------------------------------------------------ checkpoints
\* a path is the base handed to the save and a suffix: the second of a
\* periodic save, or -1 for the literal 'last' of the final save
PeriodicPaths ==
    [base : {"model_path", "logging_path"},
     suffix : 0..((TicksPerSecond - 1 + Max(MaxTime, MaxClock)) \div TicksPerSecond)]
LastPath == [base |-> "model_path", suffix |-> -1]
Paths == PeriodicPaths \cup {LastPath}
\* datetime.datetime.now().strftime("%y%m%d_%H%M%S"): the second of the clock reading
Suffix(t) == (arg.phase + t) \div TicksPerSecond

\* ppi: if "CUDA_VISIBLE_DEVICES" in os.environ: ... if n_gpu > 1:
\*          ppi_model = torch.nn.DataParallel(ppi_model)
\* simple_ppitrain: if n_gpu > 1: finetuned_model = torch.nn.DataParallel(finetuned_model)
Wrapped(a) ==
    IF a.fn = "train" THEN a.cuda_visible /\ a.n_gpu > 1 ELSE a.n_gpu > 1
\* model.state_dict(): the keys of a DataParallel wrapper carry the wrapper's prefix
StateDict(wrapped) == IF wrapped THEN "wrapped" ELSE "unwrapped"
\* torch.save(state_dict, path): the file at path holds what was written last
Save(cp, path, state) ==
    [cp EXCEPT ![path] = [writes |-> @.writes + 1, state |-> state]]

\* ------------------------------------------------- the orchestrators' rules
\* as TrainEpochs, rounding the pass count up instead of down
TrainEpochsCeil(ms, n) == (Max(1, ms) + n - 1) \div n

\* train: max_steps = max(1, max_steps); epochs = max_steps // num_data
TrainEpochs(ms, n) == Max(1, ms) \div n

\* simple_ppitrain: t_total and epochs
SimpleTotal(ms, gas, n) == IF ms > 0 THEN (ms \div gas) + 1 ELSE n \div gas
SimpleEpochs(ms, gas, n) == IF ms > 0 THEN SimpleTotal(ms, gas, n) \div n ELSE 1

\* as AdvanceIt, counting batches instead of examples
AdvanceItByBatch(i, n) == i + 1

\* it += len(gene)
AdvanceIt(i, n) == i + n

\* as StepDue, stepping at the last batch of each window instead of the first
StepDueAtWindowEnd(jj, gas) == (jj + 1) % gas = 0

\* if j % gradient_accumulation_steps == 0
StepDue(jj, gas) == jj % gas = 0

\* as SummaryDue, due already when the interval has just elapsed
SummaryDueInclusive(t, last, interval) == (t - last) >= interval

\* if (now - last_summary_time) > summary_interval
SummaryDue(t, last, interval) == (t - last) > interval
\* if (now - last_checkpoint_time) > checkpoint_interval
CheckpointDue(t, last, interval) == (t - last) > interval

\* as CvGuard, with the guard left out
CvGuardMissing(n) == TRUE

\* if len(test_dataloader) > 0
CvGuard(n) == n > 0

\* if 'cuda' in device
OnCuda(a) == a.device = "cuda"

\* the mode nn.Module.training stands for
Mode(flag) == IF flag THEN "training" ELSE "inference"

\* loss = loss / gradient_accumulation_steps, when that is > 1; loss.item()
Loss(gas) == IF gas > 1 THEN Rat(1, gas) ELSE Rat(1, 1)

\* ------------------------------------------------------------------- Init
\* the locals and the collaborating objects when a call starts
Fresh ==
    /\ num_data = 0 /\ t_total = 0 /\ epochs = 0 /\ max_steps = arg.max_steps
    /\ e = 0 /\ k = 0 /\ j = 0
    /\ it = 0
    /\ batch_size = 0
    /\ now = 0 /\ last_summary_time = 0 /\ last_checkpoint_time = 0
    /\ clock = 0 /\ h = 0 /\ caught = 0
    /\ err = Rat(0, 1) /\ cv_err = Rat(0, 1) /\ pos_score = Rat(0, 1)
    /\ rank_counts = 0 /\ avg_rank = Rat(0, 1) /\ tpr = Rat(0, 1)
    /\ training = TRUE
    /\ grads = 0 /\ backwards = 0 /\ clips = 0 /\ zero_grads = 0
    /\ optimizer = 0 /\ scheduler = 0
    /\ writer = NewWriter
    /\ checkpoints = [p \in Paths |-> [writes |-> 0, state |-> "none"]]
    /\ divisions = 0
    /\ passes = 0
    /\ train_seen = [kk \in 0..(NumShards - 1) |-> 0]
    /\ train_done = [kk \in 0..(NumShards - 1) |-> 0]
    /\ cv_seen = [kk \in 0..(NumShards - 1) |-> 0]
    /\ cv_done = [kk \in 0..(NumShards - 1) |-> 0]
    /\ cv_training = [kk \in 0..(NumShards - 1) |-> "unscored"]
    /\ stepped = {} /\ scheduled = {} /\ cleared = {}

\* no call of DummyModel.encode is under way
EncodeIdle == enc_pc = "idle" /\ enc_x = <<>> /\ enc_out = <<>>

Init ==
    /\ arg \in Args
    /\ pc = "setup"
    /\ Fresh
    /\ EncodeIdle

InitClock ==
    /\ arg \in ClockArgs
    /\ pc = "setup"
    /\ Fresh
    /\ EncodeIdle

InitFair ==
    /\ arg \in FairArgs
    /\ pc = "setup"
    /\ Fresh
    /\ EncodeIdle

\* ------------------------------------------------------------------ setup
\* train, up to the loops: last_summary_time, last_checkpoint_time =
\* time.time(), time.time() are two readings of the clock.  num_data = 0
\* raises ZeroDivisionError at epochs = max_steps // num_data.
TrainSetup ==
    /\ pc = "setup" /\ arg.fn = "train"
    /\ last_summary_time' \in clock..arg.horizon
    /\ last_checkpoint_time' \in last_summary_time'..arg.horizon
    /\ clock' = last_checkpoint_time'
    /\ num_data' = Total(arg.directory)
    /\ t_total' = num_data' \div arg.gradient_accumulation_steps
    /\ max_steps' = Max(1, arg.max_steps)
    /\ IF num_data' = 0
         THEN /\ pc' = "raised"
              /\ UNCHANGED epochs
         ELSE /\ epochs' = TrainEpochs(arg.max_steps, num_data')
              /\ pc' = "epoch"
    /\ UNCHANGED <<encVars, h, caught, arg, loopVars, it, batch_size, now, metricVars, modelVars,
                   optVars, sinkVars, histVars, accumVars>>

\* simple_ppitrain, up to the loops: last_summary_time = time.time() and
\* last_checkpoint_time = time.time() are two readings of the clock.  With
\* max_steps > 0, num_data = 0 raises ZeroDivisionError at
\* epochs = t_total // num_data; os.environ["CUDA_VISIBLE_DEVICES"] raises
\* KeyError when the variable is not set; now = time.time() is a third reading
\* and last_now = time.time() a fourth.
SimpleSetup ==
    /\ pc = "setup" /\ arg.fn = "simple_ppitrain"
    /\ last_summary_time' \in clock..arg.horizon
    /\ last_checkpoint_time' \in last_summary_time'..arg.horizon
    /\ num_data' = Total(arg.directory)
    /\ t_total' = SimpleTotal(arg.max_steps, arg.gradient_accumulation_steps, num_data')
    /\ IF arg.max_steps > 0 /\ num_data' = 0
         THEN /\ pc' = "raised"
              /\ clock' = last_checkpoint_time'
              /\ UNCHANGED <<epochs, now>>
         ELSE /\ epochs' = SimpleEpochs(arg.max_steps, arg.gradient_accumulation_steps, num_data')
              /\ IF arg.cuda_visible
                   THEN /\ now' \in last_checkpoint_time'..arg.horizon
                        /\ clock' \in now'..arg.horizon
                        /\ pc' = "epoch"
                   ELSE /\ pc' = "raised"
                        /\ clock' = last_checkpoint_time'
                        /\ UNCHANGED now
    /\ UNCHANGED <<encVars, h, caught, arg, max_steps, loopVars, it, batch_size, metricVars,
                   modelVars, optVars, sinkVars, histVars, accumVars>>

\* --------------------------------------------------------------- the loops
\* for e in range(epochs): a further pass starts
EpochEnter ==
    /\ pc = "epoch" /\ e < epochs
    /\ k' = 0
    /\ pc' = "shard"
    /\ UNCHANGED <<encVars, stepVars, arg, setupVars, e, j, it, batch_size, clockVars, metricVars,
                   modelVars, optVars, sinkVars, histVars, accumVars>>

\* for e in range(epochs): exhausted.  train goes to writer.close() (its
\* add_hparams call is commented out), simple_ppitrain to add_hparams.
EpochExit ==
    /\ pc = "epoch" /\ e >= epochs
    /\ pc' = IF arg.fn = "simple_ppitrain" THEN "hparams" ELSE "close"
    /\ UNCHANGED <<encVars, stepVars, arg, setupVars, loopVars, it, batch_size, clockVars, metricVars,
                   modelVars, optVars, sinkVars, histVars, accumVars>>

\* for k, dataloader in enumerate(directory_dataloader): the next shard;
\* model.train(); batch_size = train_dataloader.batch_size
ShardEnter ==
    /\ pc = "shard" /\ k < NumShards
    /\ training' = TRUE
    /\ batch_size' = arg.batch_size
    /\ j' = 0
    /\ stepped' = {} /\ scheduled' = {} /\ cleared' = {}
    /\ pc' = "batch"
    /\ UNCHANGED <<encVars, stepVars, arg, setupVars, e, k, it, clockVars, metricVars,
                   grads, backwards, clips, zero_grads, optVars, sinkVars, histVars>>

\* for k, dataloader in enumerate(directory_dataloader): exhausted
ShardExit ==
    /\ pc = "shard" /\ k >= NumShards
    /\ e' = e + 1
    /\ passes' = passes + 1
    /\ pc' = "epoch"
    /\ UNCHANGED <<encVars, stepVars, arg, setupVars, k, j, it, batch_size, clockVars, metricVars,
                   modelVars, optVars, sinkVars, train_seen, train_done, cv_seen,
                   cv_done, cv_training, accumVars>>

\* the model is a DataParallel wrapper, which has neither encode nor predict:
\* train's ppi_model.encode(gene) raises AttributeError
NoEncode(a) == a.fn = "train" /\ Wrapped(a)
\* simple_ppitrain's finetuned_model.predict(gv, pv) raises AttributeError
NoPredict(a) == a.fn = "simple_ppitrain" /\ Wrapped(a)

\* for j, (gene, pos, neg) in enumerate(train_dataloader): the next batch;
\* simple_ppitrain reads the clock (now = time.time()), train does not; the
\* triples are encoded and the loss is computed
BatchStart ==
    /\ pc = "batch" /\ j < NumTrainBatches(k)
    /\ ~NoEncode(arg)
    /\ IF arg.fn = "simple_ppitrain"
         THEN /\ clock' \in clock..arg.horizon
              /\ now' = clock'
         ELSE UNCHANGED <<clock, now>>
    /\ pc' = "backward"
    /\ UNCHANGED <<encVars, h, caught, arg, setupVars, loopVars, it, batch_size, last_summary_time,
                   last_checkpoint_time, metricVars, modelVars, optVars, sinkVars,
                   histVars, accumVars>>

\* loss.backward()
Backward ==
    /\ pc = "backward"
    /\ grads' = grads + 1
    /\ backwards' = backwards + 1
    /\ pc' = "clip"
    /\ UNCHANGED <<encVars, stepVars, arg, setupVars, loopVars, it, batch_size, clockVars, metricVars,
                   training, clips, zero_grads, optVars, sinkVars, histVars, accumVars>>

\* clip_grad_norm_(model.parameters(), clip_norm)
Clip ==
    /\ pc = "clip"
    /\ clips' = clips + 1
    /\ pc' = "count"
    /\ UNCHANGED <<encVars, stepVars, arg, setupVars, loopVars, it, batch_size, clockVars, metricVars,
                   training, grads, backwards, zero_grads, optVars, sinkVars, histVars,
                   accumVars>>

\* as Count, going from the counter advance straight to the optimizer step
CountThenStep ==
    /\ pc = "count"
    /\ it' = AdvanceIt(it, BatchLen(Shard(k).train, arg.batch_size, j))
    /\ err' = Loss(arg.gradient_accumulation_steps)
    /\ train_seen' = [train_seen EXCEPT ![k] = @ + 1]
    /\ pc' = "accum"
    /\ UNCHANGED <<encVars, stepVars, arg, setupVars, loopVars, batch_size, clockVars, cv_err, pos_score,
                   rank_counts, avg_rank, tpr, modelVars, optVars, sinkVars, passes,
                   train_done, cv_seen, cv_done, cv_training, accumVars>>

\* it += len(gene); err = loss.item()
Count ==
    /\ pc = "count"
    /\ it' = AdvanceIt(it, BatchLen(Shard(k).train, arg.batch_size, j))
    /\ err' = Loss(arg.gradient_accumulation_steps)
    /\ train_seen' = [train_seen EXCEPT ![k] = @ + 1]
    /\ pc' = "summary"
    /\ UNCHANGED <<encVars, stepVars, arg, setupVars, loopVars, batch_size, clockVars, cv_err, pos_score,
                   rank_counts, avg_rank, tpr, modelVars, optVars, sinkVars, passes,
                   train_done, cv_seen, cv_done, cv_training, accumVars>>

\* simple_ppitrain: the print of the batch, then write down summary stats:
\* when due, writer.add_scalar('train_error', err, it), then the loop over
\* the named parameters
Summarize ==
    /\ pc = "summary" /\ arg.fn = "simple_ppitrain"
    /\ IF SummaryDue(now, last_summary_time, arg.summary_interval)
         THEN /\ writer' = AddScalar(writer, "train_error", err, it)
              /\ h' = 0
              /\ pc' = "histogram"
         ELSE /\ pc' = "checkpoint"
              /\ UNCHANGED <<writer, h>>
    /\ UNCHANGED <<encVars, clock, caught, arg, setupVars, loopVars, it, batch_size, clockVars,
                   metricVars, modelVars, optVars, checkpoints, divisions, histVars,
                   accumVars>>

\* for name, param in finetuned_model.named_parameters():
\*     writer.add_histogram('grad/%s' % name, param.grad, it)
\* the next named parameter
AddHistogram ==
    /\ pc = "histogram" /\ h < arg.params
    /\ writer' = AddScalar(writer, "grad", Rat(grads, 1), it)
    /\ h' = h + 1
    /\ UNCHANGED <<encVars, clock, caught, arg, pc, setupVars, loopVars, it, batch_size,
                   clockVars, metricVars, modelVars, optVars, checkpoints, divisions,
                   histVars, accumVars>>

\* for name, param in finetuned_model.named_parameters(): exhausted;
\* last_summary_time = now
HistogramsExit ==
    /\ pc = "histogram" /\ h >= arg.params
    /\ last_summary_time' = now
    /\ pc' = "checkpoint"
    /\ UNCHANGED <<encVars, stepVars, arg, setupVars, loopVars, it, batch_size, now,
                   last_checkpoint_time, metricVars, modelVars, optVars, sinkVars,
                   histVars, accumVars>>

\* train: last_summary_time = summarize_gradients(model, summary_interval,
\* last_summary_time, it, writer); the callee is step 9 of the batch contract:
\* it is handed no time and reads the clock itself
SummarizeGradients ==
    /\ pc = "summary" /\ arg.fn = "train"
    /\ clock' \in clock..arg.horizon
    /\ IF (clock' - last_summary_time) > arg.summary_interval
         THEN /\ writer' = AddScalar(AddScalar(writer, "train_error", err, it),
                                     "grad", Rat(grads, 1), it)
              /\ last_summary_time' = clock'
         ELSE UNCHANGED <<writer, last_summary_time>>
    /\ pc' = "checkpoint"
    /\ UNCHANGED <<encVars, h, caught, arg, setupVars, loopVars, it, batch_size, now, last_checkpoint_time,
                   metricVars, modelVars, optVars, checkpoints, divisions, histVars,
                   accumVars>>

\* try: state_dict = finetuned_model.module.state_dict(): whether the attempt
\* raises AttributeError.  A model that is not wrapped has no attribute module
\* and always does; the module.state_dict() of a wrapper may.
AttemptRaises(wrapped) == IF wrapped THEN BOOLEAN ELSE {TRUE}
\* the exceptions the except clause handles
Handled(raises) == IF raises THEN 1 ELSE 0
\* the state_dict the checkpoint saves: finetuned_model.module.state_dict(),
\* the state of the module inside the wrapper, or, the AttributeError
\* handled, finetuned_model.state_dict()
SavedStateDict(wrapped, raises) == IF raises THEN StateDict(wrapped) ELSE StateDict(FALSE)

\* simple_ppitrain: the periodic checkpoint: when due,
\* suffix = datetime.datetime.now().strftime(...) is a new reading of the clock,
\* the state_dict is taken under try/except AttributeError,
\* torch.save(state_dict, model_path + suffix), last_checkpoint_time = now
Checkpoint ==
    /\ pc = "checkpoint" /\ arg.fn = "simple_ppitrain"
    /\ IF CheckpointDue(now, last_checkpoint_time, arg.checkpoint_interval)
         THEN /\ clock' \in clock..arg.horizon
              /\ \E raises \in AttemptRaises(Wrapped(arg)) :
                    /\ caught' = caught + Handled(raises)
                    /\ checkpoints' =
                          Save(checkpoints,
                               [base |-> "model_path", suffix |-> Suffix(clock')],
                               SavedStateDict(Wrapped(arg), raises))
              /\ last_checkpoint_time' = now
         ELSE UNCHANGED <<checkpoints, last_checkpoint_time, clock, caught>>
    /\ pc' = "accum"
    /\ UNCHANGED <<encVars, h, arg, setupVars, loopVars, it, batch_size, now, last_summary_time,
                   metricVars, modelVars, optVars, writer, divisions, histVars, accumVars>>

\* train: last_checkpoint_time = checkpoint(model, logging_path,
\* checkpoint_interval, last_checkpoint_time, writer); the callee is step 10
\* of the batch contract, given logging_path as the path to save under; it
\* is handed no time and reads the clock itself
CheckpointCall ==
    /\ pc = "checkpoint" /\ arg.fn = "train"
    /\ clock' \in clock..arg.horizon
    /\ IF (clock' - last_checkpoint_time) > arg.checkpoint_interval
         THEN /\ checkpoints' = Save(checkpoints,
                                      [base |-> "logging_path", suffix |-> Suffix(clock')],
                                      StateDict(FALSE))
              /\ last_checkpoint_time' = clock'
         ELSE UNCHANGED <<checkpoints, last_checkpoint_time>>
    /\ pc' = "accum"
    /\ UNCHANGED <<encVars, h, caught, arg, setupVars, loopVars, it, batch_size, now, last_summary_time,
                   metricVars, modelVars, optVars, writer, divisions, histVars, accumVars>>

\* as Accumulate, stepping the optimizer after every batch
AccumulateAlways ==
    /\ pc = "accum"
    /\ pc' = "optimizer_step"
    /\ UNCHANGED <<encVars, stepVars, arg, setupVars, loopVars, it, batch_size, clockVars, metricVars,
                   modelVars, optVars, sinkVars, histVars, accumVars>>

\* if j % gradient_accumulation_steps == 0: ... ; otherwise the batch is over
Accumulate ==
    /\ pc = "accum"
    /\ IF StepDue(j, arg.gradient_accumulation_steps)
         THEN /\ pc' = "optimizer_step"
              /\ UNCHANGED j
         ELSE /\ pc' = "batch"
              /\ j' = j + 1
    /\ UNCHANGED <<encVars, stepVars, arg, setupVars, e, k, it, batch_size, clockVars, metricVars,
                   modelVars, optVars, sinkVars, histVars, accumVars>>

\* optimizer.step()
OptimizerStep ==
    /\ pc = "optimizer_step"
    /\ optimizer' = optimizer + 1
    /\ stepped' = stepped \cup {j}
    /\ pc' = "scheduler_step"
    /\ UNCHANGED <<encVars, stepVars, arg, setupVars, loopVars, it, batch_size, clockVars, metricVars,
                   modelVars, scheduler, sinkVars, histVars, scheduled, cleared>>

\* scheduler.step()
SchedulerStep ==
    /\ pc = "scheduler_step"
    /\ scheduler' = scheduler + 1
    /\ scheduled' = scheduled \cup {j}
    /\ pc' = "zero_grad"
    /\ UNCHANGED <<encVars, stepVars, arg, setupVars, loopVars, it, batch_size, clockVars, metricVars,
                   modelVars, optimizer, sinkVars, histVars, stepped, cleared>>

\* model.zero_grad(); the batch is over
ZeroGrad ==
    /\ pc = "zero_grad"
    /\ grads' = 0
    /\ zero_grads' = zero_grads + 1
    /\ cleared' = cleared \cup {j}
    /\ j' = j + 1
    /\ pc' = "batch"
    /\ UNCHANGED <<encVars, stepVars, arg, setupVars, e, k, it, batch_size, clockVars, metricVars,
                   training, backwards, clips, optVars, sinkVars, histVars, stepped,
                   scheduled>>

\* as TrainExit, going on to the next shard without a Cross-Validation Pass
TrainExitNoCv ==
    /\ pc = "batch" /\ j >= NumTrainBatches(k)
    /\ train_done' = [train_done EXCEPT ![k] = @ + 1]
    /\ k' = k + 1
    /\ pc' = "shard"
    /\ UNCHANGED <<encVars, stepVars, arg, setupVars, e, j, it, batch_size, clockVars, metricVars, modelVars,
                   optVars, sinkVars, passes, train_seen, cv_seen, cv_done, cv_training,
                   accumVars>>

\* as TrainExit, carrying rank_counts over from the shard before
TrainExitKeepsRank ==
    /\ pc = "batch" /\ j >= NumTrainBatches(k)
    /\ train_done' = [train_done EXCEPT ![k] = @ + 1]
    /\ IF arg.fn = "simple_ppitrain"
         THEN /\ cv_err' = Rat(0, 1) /\ pos_score' = Rat(0, 1)
              /\ rank_counts' = rank_counts
              /\ batch_size' = arg.batch_size
              /\ j' = 0
              /\ pc' = "cv"
         ELSE /\ pc' = "pairwise_auc"
              /\ UNCHANGED <<cv_err, pos_score, rank_counts, batch_size, j>>
    /\ UNCHANGED <<encVars, stepVars, arg, setupVars, e, k, it, clockVars, err, avg_rank, tpr, modelVars,
                   optVars, sinkVars, passes, train_seen, cv_seen, cv_done, cv_training,
                   accumVars>>

\* the train loader is exhausted.  simple_ppitrain enters the no_grad block:
\* cv_err, pos_score, rank_counts = 0, 0, 0; batch_size = test_dataloader.batch_size.
\* train calls pairwise_auc.
TrainExit ==
    /\ pc = "batch" /\ j >= NumTrainBatches(k)
    /\ train_done' = [train_done EXCEPT ![k] = @ + 1]
    /\ IF arg.fn = "simple_ppitrain"
         THEN /\ cv_err' = Rat(0, 1) /\ pos_score' = Rat(0, 1) /\ rank_counts' = 0
              /\ batch_size' = arg.batch_size
              /\ j' = 0
              /\ pc' = "cv"
         ELSE /\ pc' = "pairwise_auc"
              /\ UNCHANGED <<cv_err, pos_score, rank_counts, batch_size, j>>
    /\ UNCHANGED <<encVars, stepVars, arg, setupVars, e, k, it, clockVars, err, avg_rank, tpr, modelVars,
                   optVars, sinkVars, passes, train_seen, cv_seen, cv_done, cv_training,
                   accumVars>>

\* ------------------------------------------------- Cross-Validation Pass
\* as CvBatch, clearing the accumulated gradients while scoring
CvBatchZeroGrad ==
    /\ pc = "cv" /\ j < NumTestBatches(k)
    /\ ~NoPredict(arg)
    /\ \E r \in 0..BatchLen(Shard(k).test, arg.batch_size, j) :
          rank_counts' = rank_counts + r
    /\ cv_err' = RatAdd(cv_err, 1)
    /\ pos_score' = RatAdd(pos_score, BatchLen(Shard(k).test, arg.batch_size, j))
    /\ cv_seen' = [cv_seen EXCEPT ![k] = @ + 1]
    /\ cv_training' = [cv_training EXCEPT ![k] = Mode(training)]
    /\ j' = j + 1
    /\ grads' = 0
    /\ zero_grads' = zero_grads + 1
    /\ UNCHANGED <<encVars, stepVars, arg, pc, setupVars, e, k, it, batch_size, clockVars, err, avg_rank,
                   tpr, training, backwards, clips, optVars, sinkVars, passes, train_seen,
                   train_done, cv_done, accumVars>>

\* simple_ppitrain: one test batch: forward, predict, predict, the three sums
CvBatch ==
    /\ pc = "cv" /\ j < NumTestBatches(k)
    /\ ~NoPredict(arg)
    /\ \E r \in 0..BatchLen(Shard(k).test, arg.batch_size, j) :
          rank_counts' = rank_counts + r
    /\ cv_err' = RatAdd(cv_err, 1)
    /\ pos_score' = RatAdd(pos_score, BatchLen(Shard(k).test, arg.batch_size, j))
    /\ cv_seen' = [cv_seen EXCEPT ![k] = @ + 1]
    /\ cv_training' = [cv_training EXCEPT ![k] = Mode(training)]
    /\ j' = j + 1
    /\ UNCHANGED <<encVars, stepVars, arg, pc, setupVars, e, k, it, batch_size, clockVars, err, avg_rank,
                   tpr, modelVars, optVars, sinkVars, passes, train_seen, train_done,
                   cv_done, accumVars>>

\* simple_ppitrain: the test loader is exhausted: under the guard, the four
\* averages, then the three add_scalar calls; without test batches, the
\* next shard.  A division by len(test_dataloader) = 0 raises ZeroDivisionError.
CvAverage ==
    /\ pc = "cv" /\ j >= NumTestBatches(k)
    /\ IF CvGuard(NumTestBatches(k))
         THEN IF NumTestBatches(k) = 0
                THEN /\ divisions' = divisions + 1
                     /\ pc' = "raised"
                     /\ UNCHANGED <<cv_err, avg_rank, tpr, pos_score, cv_done, k>>
                ELSE /\ cv_err' = RatDiv(cv_err, NumTestBatches(k))
                     /\ avg_rank' = RatDiv(Rat(rank_counts, 1), NumTestBatches(k))
                     /\ tpr' = RatDiv(avg_rank', batch_size)
                     /\ pos_score' = RatDiv(pos_score, NumTestBatches(k))
                     /\ divisions' = divisions + 4
                     /\ pc' = "emit_test_error"
                     /\ UNCHANGED <<cv_done, k>>
         ELSE /\ cv_done' = [cv_done EXCEPT ![k] = @ + 1]
              /\ k' = k + 1
              /\ pc' = "shard"
              /\ UNCHANGED <<cv_err, avg_rank, tpr, pos_score, divisions>>
    /\ UNCHANGED <<encVars, stepVars, arg, setupVars, e, j, it, batch_size, clockVars, err,
                   rank_counts, modelVars, optVars, writer, checkpoints, passes,
                   train_seen, train_done, cv_seen, cv_training, accumVars>>

\* writer.add_scalar('test_error', cv_err, it)
EmitTestError ==
    /\ pc = "emit_test_error"
    /\ writer' = AddScalar(writer, "test_error", cv_err, it)
    /\ pc' = "emit_tpr"
    /\ UNCHANGED <<encVars, stepVars, arg, setupVars, loopVars, it, batch_size, clockVars,
                   metricVars, modelVars, optVars, checkpoints, divisions, histVars,
                   accumVars>>

\* writer.add_scalar('TPR', tpr, it)
EmitTpr ==
    /\ pc = "emit_tpr"
    /\ writer' = AddScalar(writer, "TPR", tpr, it)
    /\ pc' = "emit_pos_score"
    /\ UNCHANGED <<encVars, stepVars, arg, setupVars, loopVars, it, batch_size, clockVars,
                   metricVars, modelVars, optVars, checkpoints, divisions, histVars,
                   accumVars>>

\* writer.add_scalar('pos_score', pos_score, it); then the next shard
EmitPosScore ==
    /\ pc = "emit_pos_score"
    /\ writer' = AddScalar(writer, "pos_score", pos_score, it)
    /\ cv_done' = [cv_done EXCEPT ![k] = @ + 1]
    /\ k' = k + 1
    /\ pc' = "shard"
    /\ UNCHANGED <<encVars, stepVars, arg, setupVars, e, j, it, batch_size, clockVars,
                   metricVars, modelVars, optVars, checkpoints, divisions, passes,
                   train_seen, train_done, cv_seen, cv_training, accumVars>>

\* train: tpr = pairwise_auc(model, test_dataloader, 'Main/test', it, writer, device):
\* the whole Cross-Validation Pass of the shard, in inference mode
PairwiseAuc ==
    /\ pc = "pairwise_auc"
    /\ training' = FALSE
    /\ IF NumTestBatches(k) > 0
         THEN /\ \E r \in 0..Shard(k).test : rank_counts' = r
              /\ cv_err' = Rat(NumTestBatches(k), NumTestBatches(k))
              /\ pos_score' = Rat(Shard(k).test, NumTestBatches(k))
              /\ avg_rank' = Rat(rank_counts', NumTestBatches(k))
              /\ tpr' = RatDiv(avg_rank', arg.batch_size)
              /\ divisions' = divisions + 4
              /\ writer' = AddScalar(AddScalar(AddScalar(AddScalar(writer,
                               "test_error", cv_err', it),
                               "avg_rank", avg_rank', it),
                               "TPR", tpr', it),
                               "pos_score", pos_score', it)
              /\ cv_training' = [cv_training EXCEPT ![k] = Mode(FALSE)]
         ELSE UNCHANGED <<rank_counts, cv_err, pos_score, avg_rank, tpr, divisions,
                          writer, cv_training>>
    /\ cv_seen' = [cv_seen EXCEPT ![k] = @ + NumTestBatches(k)]
    /\ cv_done' = [cv_done EXCEPT ![k] = @ + 1]
    /\ k' = k + 1
    /\ pc' = "shard"
    /\ UNCHANGED <<encVars, stepVars, arg, setupVars, e, j, it, batch_size, clockVars, err, grads,
                   backwards, clips, zero_grads, optVars, checkpoints, passes,
                   train_seen, train_done, accumVars>>

\* ------------------------------------------------------------- the return
\* simple_ppitrain: writer.add_hparams(hparam_dict, metric_dict)
AddHparams ==
    /\ pc = "hparams"
    /\ writer' = AddScalar(writer, "hparams", tpr, 0)
    /\ pc' = "close"
    /\ UNCHANGED <<encVars, stepVars, arg, setupVars, loopVars, it, batch_size, clockVars, metricVars,
                   modelVars, optVars, checkpoints, divisions, histVars, accumVars>>

\* writer.close(); return model
Close ==
    /\ pc = "close"
    /\ writer' = [writer EXCEPT !.closed = TRUE]
    /\ pc' = "done"
    /\ UNCHANGED <<encVars, stepVars, arg, setupVars, loopVars, it, batch_size, clockVars, metricVars,
                   modelVars, optVars, checkpoints, divisions, histVars, accumVars>>

\* as PpiSaveLast, saving also after train has raised (a finally clause)
PpiSaveLastAlways ==
    /\ pc \in {"done", "raised"} /\ arg.fn = "train"
    /\ checkpoints' = Save(checkpoints, LastPath, StateDict(Wrapped(arg)))
    /\ pc' = "saved"
    /\ UNCHANGED <<encVars, stepVars, arg, setupVars, loopVars, it, batch_size, clockVars,
                   metricVars, modelVars, optVars, writer, divisions, histVars, accumVars>>

\* ppi, after train has returned: torch.save(finetuned_model.state_dict(),
\* model_path + 'last')
PpiSaveLast ==
    /\ pc = "done" /\ arg.fn = "train"
    /\ checkpoints' = Save(checkpoints, LastPath, StateDict(Wrapped(arg)))
    /\ pc' = "saved"
    /\ UNCHANGED <<encVars, stepVars, arg, setupVars, loopVars, it, batch_size, clockVars,
                   metricVars, modelVars, optVars, writer, divisions, histVars, accumVars>>

\* the statements that call into the loaders, the encoder, the model, the
\* optimizer, the scheduler, the writer or the file system
Fallible ==
    {"setup", "shard", "batch", "backward", "clip", "count", "summary", "histogram",
     "checkpoint", "optimizer_step", "scheduler_step", "zero_grad", "cv",
     "emit_test_error", "emit_tpr", "emit_pos_score", "pairwise_auc", "hparams",
     "close", "done"}

\* the statement at pc makes a call before it assigns anything.  ppi builds
\* the model and the loaders before it calls train and saves after train has
\* returned; simple_ppitrain starts with its clock readings and returns to its
\* caller.  A loop head calls the iterator of its loader, and the exhausted
\* test loop is followed by len(test_dataloader).  simple_ppitrain's summary
\* is preceded by a print; its checkpoint is preceded by
\* torch.cuda.empty_cache() when 'cuda' in device and reads the clock when due.
CallMade ==
    /\ pc \in {"setup", "done"} => arg.fn = "train"
    /\ (pc = "checkpoint" /\ arg.fn = "simple_ppitrain")
          => \/ OnCuda(arg)
             \/ CheckpointDue(now, last_checkpoint_time, arg.checkpoint_interval)

\* a call made after the first statements of setup raises: the two readings
\* of last_summary_time and last_checkpoint_time are taken, or the call that
\* raises is the second reading itself: simple_ppitrain has then assigned
\* last_summary_time, train, whose two readings are one tuple assignment,
\* neither.  After the two readings, either the rule
\* for epochs has not been reached (simple_ppitrain: the model or the
\* optimizer raises; train: directory_dataloader.total() raises), or it is
\* done and the scheduler, the writer or a print raises, simple_ppitrain
\* having read the clock for the logging path when it got past
\* os.environ["CUDA_VISIBLE_DEVICES"]; or, in simple_ppitrain, now = time.time()
\* is assigned and last_now = time.time() or a print raises.
SetupRaise ==
    /\ pc = "setup" /\ arg.fn \in Orchestrators
    /\ \/ /\ arg.fn = "simple_ppitrain"
          /\ last_summary_time' \in clock..arg.horizon
          /\ clock' = last_summary_time'
          /\ UNCHANGED <<last_checkpoint_time, num_data, t_total, epochs, max_steps, now>>
       \/ /\ arg.fn = "train"
          /\ clock' \in clock..arg.horizon
          /\ UNCHANGED <<last_summary_time, last_checkpoint_time, num_data, t_total,
                         epochs, max_steps, now>>
       \/ /\ last_summary_time' \in clock..arg.horizon
          /\ last_checkpoint_time' \in last_summary_time'..arg.horizon
          /\ clock' = last_checkpoint_time'
          /\ UNCHANGED <<num_data, t_total, epochs, max_steps, now>>
       \/ /\ last_summary_time' \in clock..arg.horizon
          /\ last_checkpoint_time' \in last_summary_time'..arg.horizon
          /\ arg.fn = "train"
          /\ Total(arg.directory) > 0
          /\ num_data' = Total(arg.directory)
          /\ t_total' = num_data' \div arg.gradient_accumulation_steps
          /\ max_steps' = Max(1, arg.max_steps)
          /\ epochs' = TrainEpochs(arg.max_steps, num_data')
          /\ clock' = last_checkpoint_time'
          /\ UNCHANGED now
       \/ /\ last_summary_time' \in clock..arg.horizon
          /\ last_checkpoint_time' \in last_summary_time'..arg.horizon
          /\ arg.fn = "simple_ppitrain"
          /\ ~(arg.max_steps > 0 /\ Total(arg.directory) = 0)
          /\ num_data' = Total(arg.directory)
          /\ t_total' = SimpleTotal(arg.max_steps, arg.gradient_accumulation_steps, num_data')
          /\ epochs' = SimpleEpochs(arg.max_steps, arg.gradient_accumulation_steps, num_data')
          /\ \/ /\ clock' = last_checkpoint_time'
                /\ UNCHANGED now
             \/ /\ arg.cuda_visible
                /\ clock' \in last_checkpoint_time'..arg.horizon
                /\ UNCHANGED now
             \/ /\ arg.cuda_visible
                /\ now' \in last_checkpoint_time'..arg.horizon
                /\ clock' \in now'..arg.horizon
          /\ UNCHANGED max_steps
    /\ pc' = "raised"
    /\ UNCHANGED <<encVars, h, caught, arg, loopVars, it, batch_size, metricVars, modelVars,
                   optVars, sinkVars, histVars, accumVars>>

\* the shard is entered and a call after model.train() raises:
\* len(train_dataloader) before batch_size is assigned, the print or the
\* iterator of the train loader after it
ShardRaise ==
    /\ pc = "shard" /\ k < NumShards
    /\ training' = TRUE
    /\ \/ UNCHANGED batch_size
       \/ batch_size' = arg.batch_size
    /\ pc' = "raised"
    /\ UNCHANGED <<encVars, stepVars, arg, setupVars, loopVars, it, clockVars, metricVars,
                   grads, backwards, clips, zero_grads, optVars, sinkVars, histVars,
                   accumVars>>

\* simple_ppitrain: last_now = now; now = time.time() is done and tokenize or
\* forward raises
BatchRaise ==
    /\ pc = "batch" /\ j < NumTrainBatches(k)
    /\ arg.fn = "simple_ppitrain"
    /\ clock' \in clock..arg.horizon
    /\ now' = clock'
    /\ pc' = "raised"
    /\ UNCHANGED <<encVars, h, caught, arg, setupVars, loopVars, it, batch_size, last_summary_time,
                   last_checkpoint_time, metricVars, modelVars, optVars, sinkVars,
                   histVars, accumVars>>

\* it += len(gene) is done and loss.item() raises
CountRaise ==
    /\ pc = "count"
    /\ it' = AdvanceIt(it, BatchLen(Shard(k).train, arg.batch_size, j))
    /\ pc' = "raised"
    /\ UNCHANGED <<encVars, stepVars, arg, setupVars, loopVars, batch_size, clockVars,
                   metricVars, modelVars, optVars, sinkVars, histVars, accumVars>>

\* simple_ppitrain: the checkpoint is due, the clock is read for the suffix
\* and a call after it raises: strftime, or module.state_dict() with another
\* exception than AttributeError, before any exception is handled; or
\* finetuned_model.state_dict() in the except clause, or torch.save, after
\* the attempt at the module
CheckpointRaise ==
    /\ pc = "checkpoint" /\ arg.fn = "simple_ppitrain"
    /\ CheckpointDue(now, last_checkpoint_time, arg.checkpoint_interval)
    /\ clock' \in clock..arg.horizon
    /\ \/ UNCHANGED caught
       \/ \E raises \in AttemptRaises(Wrapped(arg)) : caught' = caught + Handled(raises)
    /\ pc' = "raised"
    /\ UNCHANGED <<encVars, h, arg, setupVars, loopVars, it, batch_size, clockVars,
                   metricVars, modelVars, optVars, sinkVars, histVars, accumVars>>

\* train: summarize_gradients or checkpoint has read the clock and a call
\* it makes after that raises
CalleeRaise ==
    /\ pc \in {"summary", "checkpoint"} /\ arg.fn = "train"
    /\ clock' \in clock..arg.horizon
    /\ pc' = "raised"
    /\ UNCHANGED <<encVars, h, caught, arg, setupVars, loopVars, it, batch_size, clockVars,
                   metricVars, modelVars, optVars, sinkVars, histVars, accumVars>>

\* simple_ppitrain: a test batch is scored and a call after the first sum
\* raises: torch.sum(pred_pos).item() after cv_err is added to,
\* torch.sum(pred_pos > pred_neg).item() after pos_score, the print or
\* torch.cuda.empty_cache() after rank_counts
CvBatchRaise ==
    /\ pc = "cv" /\ j < NumTestBatches(k)
    /\ ~NoPredict(arg)
    /\ cv_err' = RatAdd(cv_err, 1)
    /\ \/ UNCHANGED <<pos_score, rank_counts>>
       \/ /\ pos_score' = RatAdd(pos_score, BatchLen(Shard(k).test, arg.batch_size, j))
          /\ UNCHANGED rank_counts
       \/ /\ pos_score' = RatAdd(pos_score, BatchLen(Shard(k).test, arg.batch_size, j))
          /\ \E r \in 0..BatchLen(Shard(k).test, arg.batch_size, j) :
                rank_counts' = rank_counts + r
    /\ pc' = "raised"
    /\ UNCHANGED <<encVars, stepVars, arg, setupVars, loopVars, it, batch_size, clockVars,
                   err, avg_rank, tpr, modelVars, optVars, sinkVars, histVars, accumVars>>

\* simple_ppitrain: the test loader is exhausted, under the guard cv_err is
\* averaged and a later len(test_dataloader) raises: that of avg_rank, or
\* that of pos_score after avg_rank and tpr are assigned
CvAverageRaise ==
    /\ pc = "cv" /\ j >= NumTestBatches(k)
    /\ arg.fn = "simple_ppitrain"
    /\ CvGuard(NumTestBatches(k)) /\ NumTestBatches(k) > 0
    /\ cv_err' = RatDiv(cv_err, NumTestBatches(k))
    /\ \/ /\ divisions' = divisions + 1
          /\ UNCHANGED <<avg_rank, tpr>>
       \/ /\ avg_rank' = RatDiv(Rat(rank_counts, 1), NumTestBatches(k))
          /\ tpr' = RatDiv(avg_rank', batch_size)
          /\ divisions' = divisions + 3
    /\ pc' = "raised"
    /\ UNCHANGED <<encVars, stepVars, arg, setupVars, loopVars, it, batch_size, clockVars,
                   err, pos_score, rank_counts, modelVars, optVars, writer, checkpoints,
                   histVars, accumVars>>

\* a call raises before the statement at pc has assigned anything: no handler
\* encloses the loops, the call is left
Raise ==
    /\ pc \in Fallible
    /\ CallMade
    /\ pc' = "raised"
    /\ UNCHANGED <<encVars, stepVars, arg, setupVars, loopVars, it, batch_size, clockVars,
                   metricVars, modelVars, optVars, sinkVars, histVars, accumVars>>

\* simple_ppirun: finetuned_model = train(...): the module neither defines
\* nor imports train, so the call raises NameError before any orchestrator runs
SimplePpiRun ==
    /\ pc = "setup" /\ arg.fn = "simple_ppirun"
    /\ pc' = "raised"
    /\ UNCHANGED <<encVars, stepVars, arg, setupVars, loopVars, it, batch_size, clockVars,
                   metricVars, modelVars, optVars, sinkVars, histVars, accumVars>>

Next ==
    \/ TrainSetup \/ SimpleSetup \/ SimplePpiRun
    \/ EpochEnter \/ EpochExit \/ ShardEnter \/ ShardExit
    \/ BatchStart \/ Backward \/ Clip \/ Count
    \/ Summarize \/ AddHistogram \/ HistogramsExit \/ SummarizeGradients \/ Checkpoint \/ CheckpointCall
    \/ Accumulate \/ OptimizerStep \/ SchedulerStep \/ ZeroGrad
    \/ TrainExit \/ CvBatch \/ CvAverage \/ EmitTestError \/ EmitTpr \/ EmitPosScore
    \/ PairwiseAuc
    \/ AddHparams \/ Close \/ PpiSaveLast
    \/ Raise \/ SetupRaise \/ ShardRaise \/ BatchRaise \/ CountRaise \/ CheckpointRaise
    \/ CalleeRaise
    \/ CvBatchRaise \/ CvAverageRaise

Spec == Init /\ [][Next]_vars

\* the same orchestrators over a longer clock and with one or two devices
SpecClock == InitClock /\ [][Next]_vars

\* the runs of SpecClock in which the interpreter goes on to the next
\* statement whenever there is one
SpecFair == InitFair /\ [][Next]_vars /\ WF_vars(Next)

\* --------------------------------------------------------- DummyModel.encode
\* a string is the sequence of its characters
\* the string zipped with the codes in DummyModel.__init__
Alphabet ==
    << "^", ".", "A", "B", "C", "D", "E", "F", "G", "H", "I", "J", "K", "L",
       "M", "N", "O", "P", "Q", "R", "S", "T", "U", "V", "W", "X", "Y", "Z" >>
\* np.arange(27)
NumCodes == 27
\* as Peptides, with a code for every character of the string
PeptidesUntruncated ==
    [s \in {Alphabet[i] : i \in 1..Len(Alphabet)} |->
        (CHOOSE i \in 1..Len(Alphabet) : Alphabet[i] = s) - 1]

\* dict(zip(Alphabet, np.arange(NumCodes))): zip stops at the shorter of the two
Peptides ==
    [s \in {Alphabet[i] : i \in 1..Min(Len(Alphabet), NumCodes)} |->
        (CHOOSE i \in 1..Len(Alphabet) : Alphabet[i] = s) - 1]

\* y.split(' '): cut at every single space, empty pieces are kept
RECURSIVE SplitSpace(_)
SplitSpace(y) ==
    IF \A i \in 1..Len(y) : y[i] # " "
    THEN << y >>
    ELSE LET i == CHOOSE n \in 1..Len(y) :
                    y[n] = " " /\ \A m \in 1..(n - 1) : y[m] # " "
         IN  << SubSeq(y, 1, i - 1) >> \o SplitSpace(SubSeq(y, i + 1, Len(y)))

\* token in self.peptides: a token is a key when it is one character of the table
IsKey(token) == Len(token) = 1 /\ token[1] \in DOMAIN Peptides

\* DummyModel.encode(x): the tokens, or KeyError at the first piece that is no key
Encode(x) ==
    LET y == SplitSpace(<< "^", " " >> \o x \o << " ", "." >>)
    IN  IF \A i \in 1..Len(y) : IsKey(y[i])
        THEN [raised |-> FALSE, tokens |-> [i \in 1..Len(y) |-> Peptides[y[i][1]]]]
        ELSE [raised |-> TRUE, tokens |-> << >>]

\* the characters of the strings handed to encode
EncChars == {"A", "Y", "Z", "^", ".", " "}
EncInputs == UNION { [1..n -> EncChars] : n \in 0..MaxLen }

\* no orchestrator call is under way
IdleArg ==
    [fn |-> "none", max_steps |-> 0, gradient_accumulation_steps |-> 1,
     summary_interval |-> 0, checkpoint_interval |-> 0,
     directory |-> << >>, batch_size |-> 1, n_gpu |-> 1, cuda_visible |-> TRUE,
     device |-> "cpu",
     params |-> 1, phase |-> 0, horizon |-> 0]

InitEncode ==
    /\ arg = IdleArg
    /\ pc = "idle"
    /\ Fresh
    /\ enc_pc = "called" /\ enc_x \in EncInputs /\ enc_out = << >>

EncodeCall ==
    /\ enc_pc = "called"
    /\ enc_pc' = IF Encode(enc_x).raised THEN "raised" ELSE "returned"
    /\ enc_out' = Encode(enc_x).tokens
    /\ UNCHANGED <<enc_x, stepVars, arg, pc, setupVars, loopVars, it, batch_size, clockVars,
                   metricVars, modelVars, optVars, sinkVars, histVars, accumVars>>

NextEncode == EncodeCall

SpecEncode == InitEncode /\ [][NextEncode]_vars

\* ==================================================================== claims
Shards == 0..(NumShards - 1)
\* the statements of one training batch's body, after the loss is computed
BatchBody == {"backward", "clip", "count", "summary", "histogram", "checkpoint", "accum",
              "optimizer_step", "scheduler_step", "zero_grad"}
\* the part of the body after the batch has been counted
AfterCount == {"summary", "histogram", "checkpoint", "accum", "optimizer_step", "scheduler_step",
               "zero_grad"}
\* the end of simple_ppitrain's Cross-Validation Pass: the three add_scalar calls
CvEmission == {"emit_test_error", "emit_tpr", "emit_pos_score"}
\* the orchestrator has returned, and ppi's final save may have followed
Returned == pc \in {"done", "saved"}
\* the pass count each orchestrator's rule gives for the call's arguments
PassesOf(a) ==
    IF a.fn = "train"
      THEN Max(1, a.max_steps) \div Total(a.directory)
      ELSE IF a.max_steps > 0
             THEN ((a.max_steps \div a.gradient_accumulation_steps) + 1) \div Total(a.directory)
             ELSE 1

\* C1 (as claimed): with max_steps <= 0 and N >= 1, on return every shard's
\* train loader has been iterated to exhaustion exactly once.
C1_OnePassWhenUnset ==
    (Returned /\ arg.max_steps <= 0 /\ Total(arg.directory) >= 1)
        => \A kk \in Shards : /\ train_done[kk] = 1
                              /\ train_seen[kk] = NumTrainBatches(kk)

\* C2 (as claimed): with max_steps > 0, on return the Training Step Counter
\* is at least max_steps.
C2_ReturnsAfterMaxSteps ==
    (Returned /\ arg.max_steps > 0) => it >= arg.max_steps

\* C2 (amended): with max_steps > 0, on return the Training Step Counter is
\* the computed pass count times the number of train triples of the
\* directory, which may be less than max_steps.
C2_CounterIsWholePasses ==
    (Returned /\ arg.max_steps > 0) => it = PassesOf(arg) * SumTrain(arg.directory)

C2_Witness ==
    Returned /\ arg.max_steps > 0 /\ it > 0 /\ it < arg.max_steps

\* C3: train performs exactly max(1, max_steps) // N passes over the
\* directory, whatever the other arguments are.
C3_TrainPasses ==
    (Returned /\ arg.fn = "train")
        => /\ passes = Max(1, arg.max_steps) \div Total(arg.directory)
           /\ \A kk \in Shards : /\ train_done[kk] = passes
                                 /\ train_seen[kk] = passes * NumTrainBatches(kk)

C3_Witness ==
    Returned /\ arg.fn = "train" /\ passes >= 2 /\ it > 0

\* C4 (as claimed): with 0 < max_steps < N no training batch is processed,
\* no optimizer or scheduler step occurs, no Cross-Validation Pass runs and
\* the Training Step Counter stays 0.
C4_SubEpochTrainsNothing ==
    (0 < arg.max_steps /\ arg.max_steps < Total(arg.directory))
        => /\ it = 0 /\ backwards = 0 /\ optimizer = 0 /\ scheduler = 0
           /\ pc \notin BatchBody \cup {"cv", "pairwise_auc"}
           /\ \A kk \in Shards : train_seen[kk] = 0 /\ cv_done[kk] = 0

\* C5: within a shard the optimizer step, the scheduler step and the
\* gradient clearing happen, in that order, at batch index i exactly when
\* i % gradient_accumulation_steps = 0; so every window of
\* gradient_accumulation_steps consecutive processed indices holds exactly
\* one optimizer step and one scheduler step, the first of them at batch 0.
C5_StepsAtAccumulationIndex ==
    (pc \in BatchBody \cup {"batch"}) =>
        LET gas == arg.gradient_accumulation_steps
            due == { i \in 0..j : i % gas = 0 }
            finished == { i \in due : i < j }
        IN  /\ stepped = IF pc \in {"scheduler_step", "zero_grad"}
                           THEN finished \cup {j} ELSE finished
            /\ scheduled = IF pc = "zero_grad" THEN finished \cup {j} ELSE finished
            /\ cleared = finished
            /\ pc \in {"optimizer_step", "scheduler_step", "zero_grad"} => j \in due
            /\ \A w \in 0..j :
                  (w + gas <= j) =>
                      /\ Cardinality(stepped \cap (w..(w + gas - 1))) = 1
                      /\ Cardinality(scheduled \cap (w..(w + gas - 1))) = 1
            /\ j >= 1 => 0 \in stepped /\ 0 \in scheduled

C5_Witness ==
    /\ pc = "batch" /\ arg.gradient_accumulation_steps = 2 /\ j = 4
    /\ stepped = {0, 2} /\ scheduled = {0, 2} /\ cleared = {0, 2}

\* C6 (as claimed): one shard of 4 train triples and 2 test triples, batch
\* size 2, gradient_accumulation_steps 1, max_steps at its default 0: the run
\* makes exactly 2 optimizer steps and emits exactly 1 cross-validation
\* metric, whose tpr is rank_counts / 1 / 2.
C6_Scenario ==
    ( /\ Returned
      /\ arg.directory = << [train |-> 4, test |-> 2] >>
      /\ arg.batch_size = 2
      /\ arg.gradient_accumulation_steps = 1
      /\ arg.max_steps = 0 )
        => /\ optimizer = 2
           /\ writer.count["TPR"] = 1
           /\ RatEq(writer.last["TPR"].value, Rat(rank_counts, 1 * 2))

\* C7: in every pass the shards are handled one after another: when shard k
\* is in training, every earlier shard of the pass has had all its train
\* batches and then one whole Cross-Validation Pass, and no later shard has
\* been touched in this pass; the Cross-Validation Pass of shard k starts
\* only after all train batches of shard k.
C7_ShardsInSequence ==
    (pc \in BatchBody \cup CvEmission \cup {"shard", "batch", "cv", "pairwise_auc"}) =>
        \A i \in Shards :
            LET nb == NumTrainBatches(i)
                ncv == NumTestBatches(i)
            IN  IF i < k
                  THEN /\ train_seen[i] = (e + 1) * nb /\ train_done[i] = e + 1
                       /\ cv_seen[i] = (e + 1) * ncv /\ cv_done[i] = e + 1
                ELSE IF i > k \/ pc = "shard"
                  THEN /\ train_seen[i] = e * nb /\ train_done[i] = e
                       /\ cv_seen[i] = e * ncv /\ cv_done[i] = e
                ELSE IF pc \in CvEmission \cup {"cv"}
                  THEN /\ train_seen[i] = (e + 1) * nb /\ train_done[i] = e + 1
                       /\ cv_seen[i] = e * ncv + j /\ cv_done[i] = e
                ELSE IF pc = "pairwise_auc"
                  THEN /\ train_seen[i] = (e + 1) * nb /\ train_done[i] = e + 1
                       /\ cv_seen[i] = e * ncv /\ cv_done[i] = e
                ELSE /\ train_seen[i] = e * nb + j + (IF pc \in AfterCount THEN 1 ELSE 0)
                     /\ train_done[i] = e
                     /\ cv_seen[i] = e * ncv /\ cv_done[i] = e

\* simple_ppitrain in the second training batch of shard 1, after the two
\* training batches of shard 0 and its Cross-Validation Pass of one test batch
C7_Witness ==
    /\ arg.fn = "simple_ppitrain" /\ pc = "backward" /\ k = 1 /\ j = 1
    /\ NumTrainBatches(0) = 2 /\ NumTestBatches(0) = 1 /\ NumTrainBatches(1) = 2
    /\ train_seen[0] = 2 /\ train_done[0] = 1
    /\ cv_seen[0] = 1 /\ cv_done[0] = 1 /\ writer.count["test_error"] = 1
    /\ train_seen[1] = 1 /\ cv_seen[1] = 0

\* C8: outside the body of a training batch nothing writes the model: a
\* step of the Cross-Validation Pass, or any step between the last train
\* batch of a shard and the first of the next (or the return), leaves the
\* optimizer and scheduler step counts, the backward and zero_grad counts,
\* the accumulated gradients and the Training Step Counter as they were.
C8_CvWritesNothing ==
    [][ (pc \notin BatchBody)
          => UNCHANGED <<optimizer, scheduler, backwards, zero_grads, grads, it>> ]_vars

C8_Witness ==
    /\ pc = "shard" /\ k >= 1 /\ cv_seen[k - 1] > 0
    /\ optimizer > 0 /\ grads > 0 /\ arg.fn = "simple_ppitrain"

\* C9 (as claimed): whenever a cross-validation batch is scored the model
\* is in inference mode.
C9_CvInInferenceMode ==
    \A kk \in Shards : cv_training[kk] \in {"unscored", "inference"}

\* C10: in simple_ppitrain, the end of the Cross-Validation Pass of a shard
\* with zero test batches performs no division, writes no record and moves
\* on to the next shard, unless the guard's own len(test_dataloader) raises.
C10_EmptyTestShardSkipsMetrics ==
    [][ (pc = "cv" /\ NumTestBatches(k) = 0)
          => /\ divisions' = divisions
             /\ writer' = writer
             /\ UNCHANGED <<cv_err, avg_rank, tpr, pos_score>>
             /\ \/ pc' = "shard" /\ k' = k + 1
                \/ pc' = "raised" /\ k' = k ]_vars

C10_Witness ==
    /\ arg.fn = "simple_ppitrain" /\ pc = "backward" /\ k = 1
    /\ Shard(0).test = 0 /\ train_seen[0] = 1 /\ cv_done[0] = 1
    /\ writer.count["TPR"] = 0 /\ divisions = 0

\* C11: at every point of a shard's Cross-Validation Pass in
\* simple_ppitrain, rank_counts is at most the number of test examples of
\* the shard scored so far (0 before the first test batch), and a test
\* batch adds to it at least 0 and at most the number of its examples.
TestExamplesSoFar == Min(j * arg.batch_size, Shard(k).test)
C11_RankCountsBounded ==
    (pc = "cv") => (rank_counts >= 0 /\ rank_counts <= TestExamplesSoFar)

C11_Witness ==
    /\ pc = "cv" /\ k = 1 /\ j = 1 /\ cv_seen[0] > 0
    /\ rank_counts = TestExamplesSoFar /\ rank_counts > 0

\* the test loader of a shard with test batches is exhausted
CvEnds == pc = "cv" /\ j >= NumTestBatches(k) /\ NumTestBatches(k) > 0
\* a step writes one record under the tag, at the Training Step Counter
EmittedAtCounter(tag) ==
    /\ writer'.count[tag] = writer.count[tag] + 1
    /\ writer'.last[tag].step = it

\* C12 (as claimed): after a shard with at least one test batch the
\* Cross-Validation Pass writes all four values, avg_rank among them, to
\* the Metrics Sink, each at the current Training Step Counter: when the
\* pass of such a shard is over, the last record under each of the four
\* tags is at the counter.
C12_EmitsAllFour ==
    [][ (pc = "emit_pos_score" /\ pc' = "shard")
          => \A t \in {"test_error", "avg_rank", "TPR", "pos_score"} :
                writer'.count[t] > 0 /\ writer'.last[t].step = it ]_vars

\* C12 (amended): in simple_ppitrain the Cross-Validation Pass of a shard
\* with at least one test batch writes three values, the averaged cv_err
\* as test_error, then tpr as TPR, then the averaged pos_score, each at
\* the current Training Step Counter; avg_rank is computed as
\* rank_counts / number of test batches but is not written to the sink.
\* (A write that raises ends the run with the earlier records written.)
C12_EmitsThreeAtCounter ==
    [][ (pc' # "raised") =>
        /\ CvEnds =>
              /\ avg_rank' = RatDiv(Rat(rank_counts, 1), NumTestBatches(k))
              /\ writer' = writer
              /\ pc' = "emit_test_error"
        /\ (pc = "emit_test_error") =>
              /\ EmittedAtCounter("test_error")
              /\ writer'.last["test_error"].value = cv_err
              /\ pc' = "emit_tpr"
        /\ (pc = "emit_tpr") =>
              /\ EmittedAtCounter("TPR")
              /\ writer'.last["TPR"].value = tpr
              /\ pc' = "emit_pos_score"
        /\ (pc = "emit_pos_score") =>
              /\ EmittedAtCounter("pos_score")
              /\ writer'.last["pos_score"].value = pos_score
              /\ \A t \in {"test_error", "TPR", "pos_score"} : writer'.last[t].step = it
              /\ pc' = "shard"
        /\ (pc \in CvEmission \cup {"cv"}) =>
              /\ writer'.count["avg_rank"] = writer.count["avg_rank"]
              /\ it' = it
        /\ (pc \in CvEmission) => UNCHANGED <<cv_err, avg_rank, tpr, pos_score>> ]_vars

C12_Witness ==
    /\ arg.fn = "simple_ppitrain" /\ pc = "shard" /\ k = 1 /\ it > 0
    /\ writer.count["TPR"] = 1 /\ writer.last["TPR"].step = it
    /\ writer.last["TPR"].value = tpr /\ writer.count["avg_rank"] = 0
    /\ avg_rank.num > 0

\* C13 (as claimed): whenever an orchestrator has returned normally it has
\* written exactly one final hyperparameter/metric summary record to the
\* Metrics Sink, and the sink is closed only after that record.
C13_OneHparamsRecordOnReturn ==
    /\ Returned => writer.count["hparams"] = 1
    /\ writer.closed => writer.count["hparams"] = 1

\* C14 (as claimed): within one run of simple_ppitrain no two periodic
\* checkpoint writes target the same path, so a periodic checkpoint is
\* written at most once.
C14_PeriodicPathsWrittenOnce ==
    (arg.fn = "simple_ppitrain")
        => \A p \in PeriodicPaths : checkpoints[p].writes <= 1

\* the elapsed time since a timestamp exceeds the interval
Elapsed(last, interval) == (now - last) > interval

\* C15 (as claimed): any exception raised while a batch is processed ends
\* the run: a step in which an exception is raised, handled or not, leaves
\* the run aborted, and no step of the program follows the abort.
C15_AnyExceptionAborts ==
    [][ /\ pc # "raised"
        /\ (caught' # caught \/ pc' = "raised")
              => (pc' = "raised" /\ checkpoints'[LastPath].writes = 0) ]_vars

\* C15 (amended): an exception that leaves the statement it is raised in
\* ends the run: no step of the program follows it (no further batch,
\* optimizer step, metric emission or checkpoint write, no retry), and at
\* that point the entry point has not written the final 'last' checkpoint,
\* which it therefore never writes.  The one exception a run handles is an
\* AttributeError of simple_ppitrain's periodic checkpoint asking the model
\* for the state of its module, which a model that is not wrapped always
\* raises: that checkpoint is due, and unless a later call of it raises, the
\* checkpoint is written and the batch goes on.
C15_ExceptionAbortsRun ==
    [][ /\ pc # "raised"
        /\ (pc' = "raised") => (checkpoints'[LastPath].writes = 0)
        /\ (caught' # caught)
              => /\ arg.fn = "simple_ppitrain" /\ pc = "checkpoint"
                 /\ Elapsed(last_checkpoint_time, arg.checkpoint_interval)
                 /\ caught' = caught + 1
                 /\ \/ pc' = "raised" /\ checkpoints' = checkpoints
                    \/ pc' = "accum" /\ checkpoints' # checkpoints
        /\ (/\ arg.fn = "simple_ppitrain" /\ pc = "checkpoint" /\ pc' = "accum"
            /\ ~Wrapped(arg)
            /\ Elapsed(last_checkpoint_time, arg.checkpoint_interval))
              => caught' = caught + 1 ]_vars

\* a run of simple_ppitrain that wrote a periodic checkpoint after handling
\* the AttributeError, and was then ended by an exception in a later batch
C15_Witness ==
    /\ pc = "raised" /\ arg.fn = "simple_ppitrain" /\ caught = 1
    /\ \E p \in PeriodicPaths : checkpoints[p].writes = 1
    /\ j > 0 /\ j < NumTrainBatches(k) /\ backwards > train_seen[k]
    /\ it > 0 /\ optimizer > 0
    /\ checkpoints[LastPath].writes = 0

\* the symbols of a space-delimited string, and the strings that are L
\* symbols of the table joined by single spaces (the empty string for L = 0)
NumSymbols(x) == IF Len(x) = 0 THEN 0 ELSE (Len(x) + 1) \div 2
Symbol(x, i) == x[2 * i - 1]
OverAlphabet(x) ==
    \/ Len(x) = 0
    \/ /\ Len(x) % 2 = 1
       /\ \A i \in 1..Len(x) :
             IF i % 2 = 1 THEN x[i] \in DOMAIN Peptides ELSE x[i] = " "
\* the symbol a code stands for
Decode(code) == CHOOSE sym \in DOMAIN Peptides : Peptides[sym] = code

\* C16 (as claimed): for every L >= 0, encode of L alphabet symbols joined
\* by spaces returns L + 2 tokens, the first the code of '^', the last the
\* code of '.', and the interior tokens decode to the input symbols in order.
C16_EncodeRoundTrips ==
    (enc_pc # "called" /\ enc_pc # "idle" /\ OverAlphabet(enc_x))
        => /\ enc_pc = "returned"
           /\ Len(enc_out) = NumSymbols(enc_x) + 2
           /\ enc_out[1] = Peptides["^"]
           /\ enc_out[Len(enc_out)] = Peptides["."]
           /\ \A i \in 1..NumSymbols(enc_x) :
                 Decode(enc_out[i + 1]) = Symbol(enc_x, i)

\* C17 (as claimed): for the same Dataset Directory, max_steps and
\* gradient_accumulation_steps the two orchestrators run the same number
\* of passes: whichever of them has returned has run the pass count of
\* train's rule and of simple_ppitrain's rule alike.
C17_SamePassCount ==
    (Returned /\ Total(arg.directory) > 0)
        => /\ passes = TrainEpochs(arg.max_steps, Total(arg.directory))
           /\ passes = SimpleEpochs(arg.max_steps, arg.gradient_accumulation_steps,
                                    Total(arg.directory))

\* C18 (as claimed): the optimizer step of a batch precedes that batch's
\* summary emission and checkpoint write: when a batch whose index is due
\* for a step stands at its summary or its checkpoint, the optimizer has
\* already stepped for it.
C18_StepBeforeSummary ==
    (pc \in {"summary", "checkpoint"} /\ StepDue(j, arg.gradient_accumulation_steps))
        => j \in stepped

\* C18 (amended): within every training batch the order is backward,
\* gradient clipping, the Training Step Counter advance, then (when due)
\* the summary emission, then (when due) the periodic checkpoint write,
\* and only then (when due) the optimizer step, the scheduler step and the
\* gradient clearing: the summary and the checkpoint of a batch precede
\* its optimizer step.  (A batch in which an exception is raised stops there.)
C18_SummaryBeforeStep ==
    [][ (pc' # "raised") =>
        /\ (pc = "backward") => (backwards' = backwards + 1 /\ pc' = "clip")
        /\ (pc = "clip") => (clips' = clips + 1 /\ pc' = "count")
        /\ (pc = "count") => (it' > it /\ pc' = "summary")
        /\ (pc = "summary") => (j \notin stepped /\ pc' \in {"histogram", "checkpoint"})
        /\ (pc = "histogram") => (j \notin stepped /\ pc' \in {"histogram", "checkpoint"})
        /\ (pc = "checkpoint") => (j \notin stepped /\ pc' = "accum")
        /\ (pc = "accum") =>
              pc' = IF StepDue(j, arg.gradient_accumulation_steps)
                      THEN "optimizer_step" ELSE "batch"
        /\ (pc = "optimizer_step") => (optimizer' = optimizer + 1 /\ pc' = "scheduler_step")
        /\ (pc = "scheduler_step") => (scheduler' = scheduler + 1 /\ pc' = "zero_grad")
        /\ (pc = "zero_grad") => (grads' = 0 /\ pc' = "batch")
        /\ (pc \in BatchBody /\ writer' # writer) => pc \in {"summary", "histogram"}
        /\ (pc \in BatchBody /\ checkpoints' # checkpoints) => pc = "checkpoint"
        /\ (optimizer' # optimizer) => pc = "optimizer_step"
        /\ (backwards' # backwards) => pc = "backward"
        /\ (it' # it) => pc = "count" ]_vars

\* a batch that has emitted its summary and written its checkpoint, and is
\* about to take its optimizer step
C18_Witness ==
    /\ pc = "optimizer_step" /\ j \notin stepped /\ now > 0
    /\ last_summary_time = now /\ last_checkpoint_time = now
    /\ writer.last["train_error"].step = it
    /\ \E p \in PeriodicPaths : p.suffix = Suffix(now) /\ checkpoints[p].writes > 0

\* C19: in simple_ppitrain a training batch emits a summary exactly when
\* its start time minus the last-summary timestamp is strictly greater
\* than summary_interval, and the timestamp then becomes that start time
\* (so consecutive emissions are more than summary_interval apart); the
\* periodic checkpoint follows the same rule with checkpoint_interval and
\* the last-checkpoint timestamp; neither step touches the other's
\* timestamp or sink, and after the two readings that initialise them no
\* other step moves either timestamp.
C19_IntervalCadences ==
    [][ (arg.fn = "simple_ppitrain" /\ pc' # "raised") =>
        /\ (pc = "summary") =>
              /\ (writer'.count["train_error"] = writer.count["train_error"] + 1)
                    <=> Elapsed(last_summary_time, arg.summary_interval)
              /\ (writer' = writer) <=> ~Elapsed(last_summary_time, arg.summary_interval)
              /\ (pc' = "histogram") <=> Elapsed(last_summary_time, arg.summary_interval)
              /\ UNCHANGED <<last_checkpoint_time, checkpoints>>
        /\ (pc = "histogram") =>
              /\ Elapsed(last_summary_time, arg.summary_interval)
              /\ writer'.count["train_error"] = writer.count["train_error"]
              /\ (pc' = "checkpoint") <=> (h >= arg.params)
              /\ writer'.count["grad"] =
                    writer.count["grad"] + (IF h < arg.params THEN 1 ELSE 0)
              /\ last_summary_time' = IF pc' = "checkpoint" THEN now ELSE last_summary_time
              /\ UNCHANGED <<last_checkpoint_time, checkpoints>>
        /\ (pc = "checkpoint") =>
              /\ (checkpoints' # checkpoints)
                    <=> Elapsed(last_checkpoint_time, arg.checkpoint_interval)
              /\ last_checkpoint_time' =
                    IF Elapsed(last_checkpoint_time, arg.checkpoint_interval)
                      THEN now ELSE last_checkpoint_time
              /\ UNCHANGED <<last_summary_time, writer>>
        /\ (pc \notin {"setup", "histogram"}) => (last_summary_time' = last_summary_time)
        /\ (pc \notin {"setup", "checkpoint"})
              => (last_checkpoint_time' = last_checkpoint_time) ]_vars

\* two summaries one tick apart under summary_interval = 0, and in the
\* second of those batches the first checkpoint under checkpoint_interval = 1
C19_Witness ==
    /\ arg.fn = "simple_ppitrain" /\ pc = "accum" /\ now = 2
    /\ arg.summary_interval = 0 /\ arg.checkpoint_interval = 1
    /\ writer.count["train_error"] = 2 /\ last_summary_time = 2
    /\ last_checkpoint_time = 2
    /\ checkpoints[[base |-> "model_path", suffix |-> Suffix(now)]].writes = 1

\* C20 (as claimed): every persisted checkpoint, periodic or final
\* ('last'), holds the parameter state of the unwrapped model, whether or
\* not the run wrapped the model in a parallel-replica wrapper.
C20_CheckpointsUnwrapped ==
    \A p \in Paths : checkpoints[p].state \in {"none", "unwrapped"}

\* C21 (as claimed): each entry point invokes its orchestrator and,
\* after it returns, writes the final checkpoint at model_path + 'last'
\* (so no entry point's run ends before its orchestrator was invoked, and
\* 'last' is written once when ppi is over); every periodic checkpoint
\* written during a run is at a path that starts with model_path.
C21_EntryPointsAndPaths ==
    /\ (arg.fn = "simple_ppirun") => (pc # "raised")
    /\ (pc = "saved") => (checkpoints[LastPath].writes = 1)
    /\ (pc # "saved") => (checkpoints[LastPath].writes = 0)
    /\ \A p \in PeriodicPaths :
          (checkpoints[p].writes > 0) => (p.base = "model_path")

\* the two parts of C21 that fail, each on its own
C21_SimplePpiRunInvokes == (arg.fn = "simple_ppirun") => (pc # "raised")
C21_PeriodicUnderModelPath ==
    \A p \in PeriodicPaths : (checkpoints[p].writes > 0) => (p.base = "model_path")

\* the 27 symbols C22 speaks of: the start symbol, the end symbol, 25 letters
TableSymbols ==
    {"^", ".", "A", "B", "C", "D", "E", "F", "G", "H", "I", "J", "K", "L", "M",
     "N", "O", "P", "Q", "R", "S", "T", "U", "V", "W", "X", "Y"}
\* the space-delimited tokens of a string: what lies between two
\* neighbouring cuts, the cuts being the spaces and the two ends
Cuts(x) == {0, Len(x) + 1} \cup {i \in 1..Len(x) : x[i] = " "}
TokensOf(x) ==
    { SubSeq(x, c[1] + 1, c[2] - 1) :
        c \in { d \in Cuts(x) \X Cuts(x) :
                  d[1] < d[2] /\ \A m \in Cuts(x) : ~(d[1] < m /\ m < d[2]) } }
HasUnknownToken(x) ==
    \E t \in TokensOf(x) : ~(Len(t) = 1 /\ t[1] \in TableSymbols)

\* C22: the table maps '^', '.' and 25 letters, 27 symbols in all, one to
\* one onto the codes 0..26; encode raises a lookup failure, returning no
\* tokens, exactly when some space-delimited token of its input is not
\* one of those symbols, and otherwise returns one token per input token
\* between the codes of '^' and '.'.
C22_RaisesOnUnknownToken ==
    /\ DOMAIN Peptides = TableSymbols /\ Cardinality(TableSymbols) = 27
    /\ Peptides["^"] = 0 /\ Peptides["."] = 1
    /\ {Peptides[sym] : sym \in DOMAIN Peptides} = 0..26
    /\ \A s1, s2 \in DOMAIN Peptides : (Peptides[s1] = Peptides[s2]) => (s1 = s2)
    /\ (enc_pc \in {"returned", "raised"}) =>
          /\ (enc_pc = "raised") <=> HasUnknownToken(enc_x)
          /\ (enc_pc = "raised") => (enc_out = << >>)
          /\ (enc_pc = "returned") =>
                /\ Len(enc_out) = Cardinality(Cuts(enc_x)) + 1
                /\ \A i \in 1..Len(enc_out) : enc_out[i] \in 0..26

\* a letter of the zipped string that the table lacks
C22_Witness ==
    enc_pc = "raised" /\ enc_x = << "A", " ", "Z" >> /\ enc_out = << >>

\* C23 (as claimed): the gradient of every processed training batch has
\* been applied by an optimizer step before the Cross-Validation Pass of
\* its shard starts, so the accumulated gradients are clear when a
\* Cross-Validation Pass starts, when a shard's first batch starts and
\* when the orchestrator returns.
C23_NoGradientCarried ==
    /\ (pc \in {"cv", "pairwise_auc"}) => (grads = 0)
    /\ (pc = "batch" /\ j = 0) => (grads = 0)
    /\ Returned => (grads = 0)

\* sums over the shards of the directory
RECURSIVE SumShards(_, _)
SumShards(f, n) == IF n = 0 THEN 0 ELSE f[n - 1] + SumShards(f, n - 1)
Ceil(n, d) == (n + d - 1) \div d
TrainBatchesPerPass ==
    SumShards([kk \in Shards |-> NumTrainBatches(kk)], NumShards)
StepsPerPass ==
    SumShards([kk \in Shards |->
                  Ceil(NumTrainBatches(kk), arg.gradient_accumulation_steps)],
              NumShards)
\* the run is over: the orchestrator has returned, or an exception has ended it
\* or ppi's final save
Over == Returned \/ pc = "raised"

\* C24: every run over a finite directory comes to an end; on return,
\* with E the computed pass count and n_k the training batches of shard
\* k, the orchestrator has processed E * sum n_k training batches, taken
\* E * sum ceil(n_k / gradient_accumulation_steps) optimizer steps and as
\* many scheduler steps, run E cross-validation passes per shard, and the
\* Training Step Counter is the number of training examples processed; the
\* counter never decreases during the run.
C24_TerminatesWithCounts ==
    /\ <>Over
    /\ [][it' >= it]_vars
    /\ [](Returned =>
            /\ epochs = PassesOf(arg)
            /\ backwards = epochs * TrainBatchesPerPass
            /\ optimizer = epochs * StepsPerPass
            /\ scheduler = optimizer
            /\ \A kk \in Shards : /\ cv_done[kk] = epochs
                                  /\ train_seen[kk] = epochs * NumTrainBatches(kk)
            /\ it = epochs * SumTrain(arg.directory))

\* a returned run of several passes whose shards need a rounded-up step count
C24_Witness ==
    /\ Returned /\ epochs >= 2 /\ arg.gradient_accumulation_steps = 2
    /\ NumShards = 2 /\ NumTrainBatches(0) = 1
    /\ optimizer = epochs /\ backwards = epochs /\ it = epochs
    /\ writer.count["train_error"] > 0

====
